---- MODULE Spec2Model ----
(***************************************************************************)
(* A model of the naming-language generator of src/language.py:            *)
(* Phonemes (categories of sound units), Phonology (syllables built from a *)
(* structure template and filtered by restrictions) and Language (the      *)
(* morpheme, word and name caches and the calls that fill them).           *)
(*                                                                         *)
(* A Python str is a sequence of one-character strings, so "pa" is         *)
(* <<"p", "a">>.  A dict is a function whose DOMAIN is the set of keys     *)
(* present.  Every random draw of the code is an existentially quantified  *)
(* input of the action that makes the draw.                                *)
(***************************************************************************)
EXTENDS Integers, Sequences, FiniteSets, TLC

VARIABLES
    cons,       \* the Phonemes and Phonology objects under construction
    cfg,        \* which configuration the objects were constructed with
    morphemes,  \* Language.morphemes: category -> list of syllables
    words,      \* Language.words:     category -> list of words
    names,      \* Language.names:     category -> list of names
    syl,        \* the frame of Phonology.make_syllable
    gm,         \* the frame of Language.get_morpheme
    mw,         \* the frame of Language.make_word
    gw,         \* the frame of Language.get_word
    mn,         \* the frame of Language.make_name
    ret,        \* the value the last completed call returned
    calls       \* how many calls have been made from outside

vars == <<cons, cfg, morphemes, words, names, syl, gm, mw, gw, mn, ret, calls>>

(***************************************************************************)
(* Bounds of the model.                                                    *)
(***************************************************************************)
\* no more than this many calls are made from outside
MaxCalls == 2
\* get_word makes no new word once the word cache holds this many words
MaxWords == 2

(***************************************************************************)
(* Strings.                                                                *)
(***************************************************************************)
None == "None"

RECURSIVE Concat(_)
\* ''.join(parts)
Concat(parts) ==
    IF parts = <<>> THEN <<>> ELSE Head(parts) \o Concat(Tail(parts))

RECURSIVE Join(_, _)
\* sep.join(parts)
Join(sep, parts) ==
    IF parts = <<>> THEN <<>>
    ELSE IF Len(parts) = 1 THEN Head(parts)
    ELSE Head(parts) \o sep \o Join(sep, Tail(parts))

\* x in y for two str: x occurs in y as a contiguous run
IsSubstring(x, y) ==
    \E i \in 0..(Len(y) - Len(x)) : SubSeq(y, i + 1, i + Len(x)) = x

\* str.upper() and str.lower() of one character of the alphabet in use
UpperChar(ch) ==
    CASE ch = "p" -> "P" [] ch = "t" -> "T" [] ch = "a" -> "A"
      [] ch = "o" -> "O" [] ch = "f" -> "F" [] ch = "h" -> "H"
      [] ch = "e" -> "E" [] OTHER -> ch

LowerChar(ch) ==
    CASE ch = "P" -> "p" [] ch = "T" -> "t" [] ch = "A" -> "a"
      [] ch = "O" -> "o" [] ch = "F" -> "f" [] ch = "H" -> "h"
      [] ch = "E" -> "e" [] OTHER -> ch

\* str.capitalize(): first character upper-cased, all the others lower-cased
Capitalize(s) ==
    [i \in 1..Len(s) |-> IF i = 1 THEN UpperChar(s[i]) ELSE LowerChar(s[i])]

IsSpace(ch) == ch = " "

RECURSIVE LStrip(_)
LStrip(s) ==
    IF s # <<>> /\ IsSpace(Head(s)) THEN LStrip(Tail(s)) ELSE s

RECURSIVE RStrip(_)
RStrip(s) ==
    IF s # <<>> /\ IsSpace(s[Len(s)]) THEN RStrip(SubSeq(s, 1, Len(s) - 1)) ELSE s

\* str.strip()
Strip(s) == RStrip(LStrip(s))

(***************************************************************************)
(* dict of lists.                                                          *)
(***************************************************************************)
EmptyDict == [k \in {} |-> <<>>]

\* d.get(key, [])
Get(d, key) == IF key \in DOMAIN d THEN d[key] ELSE <<>>

\* a variant in which every bucket is the one list that is stored
PutShared(d, key, value) ==
    [k \in (DOMAIN d) \cup {key} |-> value]

\* d[key] = value
Put(d, key, value) ==
    [k \in (DOMAIN d) \cup {key} |-> IF k = key THEN value ELSE d[k]]

\* number of entries over all buckets
RECURSIVE SumLen(_, _)
SumLen(d, keys) ==
    IF keys = {} THEN 0
    ELSE LET k == CHOOSE x \in keys : TRUE
         IN  Len(d[k]) + SumLen(d, keys \ {k})

PoolSize(d) == SumLen(d, DOMAIN d)

(***************************************************************************)
(* Configurations: the arguments Phonemes, Phonology and Language were     *)
(* constructed with.  A category given as a str or list is                 *)
(* [kind |-> "seq", items |-> its elements]; a category given as a dict is *)
(* [kind |-> "dict", items |-> its <<phoneme, frequency>> pairs in         *)
(* insertion order].  genitive and definitive are <<>> when not given.     *)
(***************************************************************************)
Seq_(items) == [kind |-> "seq", items |-> items]
Dict_(items) == [kind |-> "dict", items |-> items]

BS == "\\"

\* C='pt', V={'a': 2}, structure 'CV?', restriction r't\V':
\* the syllables are p, t and pa (ta is restricted)
ConfigSmall ==
    [tags |-> <<"C", "V">>,
     phonemes |-> [t \in {"C", "V"} |->
                     IF t = "C" THEN Seq_(<<"p", "t">>)
                                ELSE Dict_(<< <<"a", 2>> >>)],
     structure |-> <<"C", "V", "?">>,
     restrictions |-> << <<"t", BS, "V">> >>,
     min_syllables |-> 1, max_syllables |-> 2,
     min_namelen |-> 2, max_namelen |-> 6,
     joiner |-> <<" ">>, genitive |-> <<>>, definitive |-> <<>>]

\* C='p', structure 'CC', restriction r'(.)\1': every candidate is pp
ConfigDoubled ==
    [tags |-> <<"C">>,
     phonemes |-> [t \in {"C"} |-> Seq_(<<"p">>)],
     structure |-> <<"C", "C">>,
     restrictions |-> << <<"(", ".", ")", BS, "1">> >>,
     min_syllables |-> 1, max_syllables |-> 2,
     min_namelen |-> 2, max_namelen |-> 6,
     joiner |-> <<" ">>, genitive |-> <<>>, definitive |-> <<>>]

\* C=['p'], V='a', structure 'CV?', no restrictions: the syllables are p and pa;
\* the two particles are given: genitive 'of', definitive 'the'
ConfigParticles ==
    [tags |-> <<"C", "V">>,
     phonemes |-> [t \in {"C", "V"} |->
                     IF t = "C" THEN Seq_(<<"p">>) ELSE Seq_(<<"a">>)],
     structure |-> <<"C", "V", "?">>,
     restrictions |-> <<>>,
     min_syllables |-> 1, max_syllables |-> 2,
     min_namelen |-> 2, max_namelen |-> 6,
     joiner |-> <<" ">>, genitive |-> <<"o", "f">>, definitive |-> <<"t", "h", "e">>]

Configs == <<ConfigSmall, ConfigDoubled, ConfigParticles>>

\* Phonemes.__init__, line 32: the inventory with no category defined yet,
\* and no Phonology constructed (stage "phonemes").  call is the last call
\* made on the objects, with its arguments, and err the exception it raised.
FreshCons ==
    [stage |-> "phonemes", tags |-> <<>>, phonemes |-> EmptyDict,
     attributes |-> EmptyDict, structure |-> <<>>, restrictions |-> <<>>,
     call |-> [op |-> "none"], err |-> "none"]

\* The configuration made of the objects constructed step by step; the
\* Language arguments are the defaults of Language.__init__.
ConsConfig ==
    [tags |-> cons.tags,
     phonemes |-> cons.phonemes,
     structure |-> cons.structure,
     restrictions |-> cons.restrictions,
     min_syllables |-> 1, max_syllables |-> 1,
     min_namelen |-> 5, max_namelen |-> 12,
     joiner |-> <<" ">>, genitive |-> <<>>, definitive |-> <<>>]

\* C='pt', V='a', structure 'CV?', no restrictions, and words of zero to two
\* syllables: min_syllables=0
ConfigZero ==
    [tags |-> <<"C", "V">>,
     phonemes |-> [t \in {"C", "V"} |->
                     IF t = "C" THEN Seq_(<<"p", "t">>) ELSE Seq_(<<"a">>)],
     structure |-> <<"C", "V", "?">>,
     restrictions |-> <<>>,
     min_syllables |-> 0, max_syllables |-> 2,
     min_namelen |-> 2, max_namelen |-> 6,
     joiner |-> <<" ">>, genitive |-> <<>>, definitive |-> <<>>]

\* the configurations of Configs, and after them the one for words alone
AllConfigs == Configs \o <<ConfigZero>>

\* cfg is 0 while the objects are the ones constructed step by step
Config == IF cfg \in DOMAIN AllConfigs THEN AllConfigs[cfg] ELSE ConsConfig

(***************************************************************************)
(* Phonemes.                                                               *)
(***************************************************************************)
\* Phonemes.get_categories
get_categories == Config.tags

Categories == {get_categories[i] : i \in 1..Len(get_categories)}

\* list(phonemes) / ''.join(phonemes): the elements, or the keys of a dict
Elements(source) ==
    IF source.kind = "dict"
    THEN [i \in 1..Len(source.items) |-> source.items[i][1]]
    ELSE source.items

RECURSIVE CumulativeFrequency(_, _)
\* cumulative_frequency after the first n items of a dict
CumulativeFrequency(items, n) ==
    IF n = 0 THEN 0 ELSE CumulativeFrequency(items, n - 1) + items[n][2]

\* The draws Phonemes.choose can make for a category: an index for
\* random.sample, and for a dict the value of random.uniform(0, mass), a
\* real number, here in half units (0, 1/2, 1, ..., mass).
ChooseDraws(category) ==
    LET source == Config.phonemes[category]
    IN  IF source.kind = "dict"
        THEN 0..(2 * CumulativeFrequency(source.items, Len(source.items)))
        ELSE 1..Len(source.items)

\* Phonemes.choose with the draw given
choose(category, draw) ==
    LET source == Config.phonemes[category]
    IN  IF source.kind = "dict"
        THEN LET first == CHOOSE n \in 1..Len(source.items) :
                     /\ draw <= 2 * CumulativeFrequency(source.items, n)
                     /\ \A k \in 1..(n - 1) :
                            draw > 2 * CumulativeFrequency(source.items, k)
             IN  source.items[first][1]
        ELSE source.items[draw]

(***************************************************************************)
(* Phonology: the structure template.                                      *)
(***************************************************************************)
RECURSIVE FindSteps(_, _)
\* structure_pattern.findall(structure) for the pattern ([categories])(\??):
\* scanning from position i, every category character is a step, optional
\* when a '?' follows it; any other character is skipped.
FindSteps(structure, i) ==
    IF i > Len(structure) THEN <<>>
    ELSE IF structure[i] \in Categories
         THEN IF i < Len(structure) /\ structure[i + 1] = "?"
              THEN <<[phoneme_type |-> structure[i], is_optional |-> TRUE]>>
                       \o FindSteps(structure, i + 2)
              ELSE <<[phoneme_type |-> structure[i], is_optional |-> FALSE]>>
                       \o FindSteps(structure, i + 1)
         ELSE FindSteps(structure, i + 1)

\* the local variable structure of make_syllable
Steps == FindSteps(Config.structure, 1)

(***************************************************************************)
(* Phonology: restrictions.                                                *)
(***************************************************************************)
\* a variant that puts the category character itself into the brackets
regex_sub_repl_tag(group) == <<"[", group, "]">>

\* Phonology._regex_sub_repl: '[' + ''.join(self.phonemes[group]) + ']'
regex_sub_repl(group) == <<"[">> \o Elements(Config.phonemes[group]) \o <<"]">>

RECURSIVE BackslashRun(_, _)
\* how many backslashes stand in a row from position i on
BackslashRun(regex, i) ==
    IF i <= Len(regex) /\ regex[i] = BS THEN 1 + BackslashRun(regex, i + 1) ELSE 0

RECURSIVE SubFrom(_, _)
\* pattern.sub(repl, regex) from position i on, for the pattern
\* (?:\\\\)*(?:\\)([categories]).  A match starts at i exactly when an odd
\* run of backslashes starts at i and a category character follows the run;
\* the whole match, run included, is replaced.  Otherwise the character at i
\* is kept and the scan goes on at i + 1.
SubFrom(regex, i) ==
    IF i > Len(regex) THEN <<>>
    ELSE LET run == BackslashRun(regex, i)
         IN  IF /\ run % 2 = 1
                /\ i + run <= Len(regex)
                /\ regex[i + run] \in Categories
             THEN regex_sub_repl(regex[i + run]) \o SubFrom(regex, i + run + 1)
             ELSE <<regex[i]>> \o SubFrom(regex, i + 1)

RECURSIVE SubSingleFrom(_, _)
\* the substitution for the pattern (?:\\)([categories]), which leaves the
\* backslashes in front of the last one alone
SubSingleFrom(regex, i) ==
    IF i > Len(regex) THEN <<>>
    ELSE IF regex[i] = BS /\ i < Len(regex) /\ regex[i + 1] \in Categories
         THEN regex_sub_repl(regex[i + 1]) \o SubSingleFrom(regex, i + 2)
         ELSE <<regex[i]>> \o SubSingleFrom(regex, i + 1)

process_restriction_single(regex) == SubSingleFrom(regex, 1)

\* the pattern text handed to re.compile by Phonology._process_restriction
process_restriction(regex) == SubFrom(regex, 1)

(***************************************************************************)
(* The part of Python's re the restrictions in use need: literals,         *)
(* bracket classes [..], the dot, one capturing group ( ) of               *)
(* single-character items and the back-reference \1.  A compiled pattern   *)
(* is a sequence of tokens.                                                *)
(***************************************************************************)
RECURSIVE ClassEnd(_, _)
\* position of the ']' closing the class opened before position i (0: none)
ClassEnd(pattern, i) ==
    IF i > Len(pattern) THEN 0
    ELSE IF pattern[i] = "]" THEN i
    ELSE ClassEnd(pattern, i + 1)

EscapableLiterals == {BS, "[", "]", "(", ")", ".", "?"}

RECURSIVE CompileFrom(_, _)
CompileFrom(pattern, i) ==
    IF i > Len(pattern) THEN <<>>
    ELSE LET ch == pattern[i]
         IN  CASE ch = "." -> <<[t |-> "any"]>> \o CompileFrom(pattern, i + 1)
               [] ch = "(" -> <<[t |-> "open"]>> \o CompileFrom(pattern, i + 1)
               [] ch = ")" -> <<[t |-> "close"]>> \o CompileFrom(pattern, i + 1)
               [] ch = "[" ->
                    LET e == ClassEnd(pattern, i + 1)
                    IN  IF e = 0 THEN <<[t |-> "bad"]>>
                        ELSE <<[t |-> "class",
                                s |-> {pattern[k] : k \in (i + 1)..(e - 1)}]>>
                                 \o CompileFrom(pattern, e + 1)
               [] ch = BS ->
                    IF i = Len(pattern) THEN <<[t |-> "bad"]>>
                    ELSE IF pattern[i + 1] = "1"
                         THEN <<[t |-> "ref"]>> \o CompileFrom(pattern, i + 2)
                    ELSE IF pattern[i + 1] \in EscapableLiterals
                         THEN <<[t |-> "lit", c |-> pattern[i + 1]]>>
                                  \o CompileFrom(pattern, i + 2)
                    ELSE <<[t |-> "bad"]>>
               [] OTHER -> <<[t |-> "lit", c |-> ch]>> \o CompileFrom(pattern, i + 1)

\* re.compile(pattern): the tokens; a "bad" token stands for re.error
Compile(pattern) == CompileFrom(pattern, 1)

CompileFails(tokens) == \E k \in 1..Len(tokens) : tokens[k].t = "bad"

RECURSIVE MatchFrom(_, _, _, _, _, _)
\* whether tokens[k..] match s from position pos on; gstart is where the open
\* group started and cap is the text of the closed group
MatchFrom(tokens, k, s, pos, gstart, cap) ==
    IF k > Len(tokens) THEN TRUE
    ELSE LET tok == tokens[k]
         IN  CASE tok.t = "open" -> MatchFrom(tokens, k + 1, s, pos, pos, cap)
               [] tok.t = "close" ->
                    MatchFrom(tokens, k + 1, s, pos, gstart, SubSeq(s, gstart, pos - 1))
               [] tok.t = "ref" ->
                    /\ pos + Len(cap) - 1 <= Len(s)
                    /\ SubSeq(s, pos, pos + Len(cap) - 1) = cap
                    /\ MatchFrom(tokens, k + 1, s, pos + Len(cap), gstart, cap)
               [] tok.t = "any" ->
                    /\ pos <= Len(s)
                    /\ MatchFrom(tokens, k + 1, s, pos + 1, gstart, cap)
               [] tok.t = "class" ->
                    /\ pos <= Len(s)
                    /\ s[pos] \in tok.s
                    /\ MatchFrom(tokens, k + 1, s, pos + 1, gstart, cap)
               [] tok.t = "lit" ->
                    /\ pos <= Len(s)
                    /\ s[pos] = tok.c
                    /\ MatchFrom(tokens, k + 1, s, pos + 1, gstart, cap)
               [] OTHER -> FALSE

\* r.search(s) is not None: the pattern matches from some position of s
Search(tokens, s) ==
    \E pos \in 1..(Len(s) + 1) : MatchFrom(tokens, 1, s, pos, pos, <<>>)

\* the local variable restrictions of make_syllable
CompiledRestrictions ==
    [k \in 1..Len(Config.restrictions) |->
        Compile(process_restriction(Config.restrictions[k]))]

\* any(r.search(syllable) for r in restrictions)
AnyRestrictionMatches(syllable) ==
    \E k \in 1..Len(CompiledRestrictions) : Search(CompiledRestrictions[k], syllable)

(***************************************************************************)
(* Frames.  A frame whose pc is "idle" is a function that is not running;  *)
(* the running function is the deepest frame that is not idle.             *)
(***************************************************************************)
IdleSyl == [pc |-> "idle", syllable |-> <<>>, picks |-> <<>>]
IdleGm == [pc |-> "idle", category |-> None]
IdleMw == [pc |-> "idle", category |-> None, syllable_count |-> 0, syllables |-> <<>>]
IdleGw == [pc |-> "idle", category |-> None]
IdleMn == [pc |-> "idle", category |-> None, genitive |-> <<>>, definitive |-> <<>>,
           c2 |-> None, w1 |-> <<>>, w2 |-> <<>>, words |-> <<>>, name |-> <<>>]

NoValue == [kind |-> "none", val |-> <<>>]
Returned(kind, val) == [kind |-> kind, val |-> val]

\* the categories the calls from outside are made with
CallCategories == {None, "region"}
NameCategories == {"region", "person"}

Init ==
    /\ cfg \in DOMAIN Configs
    /\ cons = FreshCons
    /\ morphemes = EmptyDict
    /\ words = EmptyDict
    /\ names = EmptyDict
    /\ syl = IdleSyl
    /\ gm = IdleGm
    /\ mw = IdleMw
    /\ gw = IdleGw
    /\ mn = IdleMn
    /\ ret = NoValue
    /\ calls = 0

AllIdle ==
    /\ syl.pc = "idle" /\ gm.pc = "idle" /\ mw.pc = "idle"
    /\ gw.pc = "idle" /\ mn.pc = "idle"

(***************************************************************************)
(* Phonology.make_syllable                                                 *)
(***************************************************************************)
\* the frame of make_syllable when it is called
EnterSyllable == [pc |-> "start", syllable |-> <<>>, picks |-> <<>>]

\* the frame of make_syllable at the top of its while loop (line 134)
EmptySyllable == [pc |-> "build", syllable |-> <<>>, picks |-> <<>>]

\* a variant that lets the coin leave out any step
MaySkipAny(step) == TRUE

\* whether the optional step is left out: is_optional and random.random() < 0.5
MaySkip(step) == step.is_optional

RECURSIVE BuildFrom(_, _, _)
\* The for loop of make_syllable from step i on: every <<syllable, picks>> the
\* draws can lead to.  picks records, for each step that was used, the step
\* and the phoneme Phonemes.choose returned for it.
BuildFrom(i, syllable, picks) ==
    IF i > Len(Steps) THEN {[syllable |-> syllable, picks |-> picks]}
    ELSE LET step == Steps[i]
         IN  (IF MaySkip(step) THEN BuildFrom(i + 1, syllable, picks) ELSE {})
             \cup
             UNION {BuildFrom(i + 1,
                              syllable \o <<choose(step.phoneme_type, d)>>,
                              Append(picks, [step |-> i,
                                             phoneme |-> choose(step.phoneme_type, d)]))
                    : d \in ChooseDraws(step.phoneme_type)}

\* a call of make_syllable from outside
Call_make_syllable ==
    /\ AllIdle
    /\ calls < MaxCalls
    /\ calls' = calls + 1
    /\ syl' = EnterSyllable
    /\ ret' = NoValue
    /\ UNCHANGED <<cons, cfg, morphemes, words, names, gm, mw, gw, mn>>

\* lines 122-128: the restrictions are compiled and the structure is parsed;
\* an exception of re.compile ends every running call
MS_Start ==
    /\ syl.pc = "start"
    /\ IF \E k \in 1..Len(CompiledRestrictions) : CompileFails(CompiledRestrictions[k])
       THEN /\ syl' = IdleSyl /\ gm' = IdleGm /\ mw' = IdleMw
            /\ gw' = IdleGw /\ mn' = IdleMn
            /\ ret' = Returned("re.error", <<>>)
       ELSE /\ syl' = EmptySyllable
            /\ UNCHANGED <<gm, mw, gw, mn, ret>>
    /\ UNCHANGED <<cons, cfg, calls, morphemes, words, names>>

\* lines 134-140: build up a complete syllable
MS_Build ==
    /\ syl.pc = "build"
    /\ \E b \in BuildFrom(1, <<>>, <<>>) :
           syl' = [pc |-> "test", syllable |-> b.syllable, picks |-> b.picks]
    /\ UNCHANGED <<cons, cfg, calls, morphemes, words, names, gm, mw, gw, mn, ret>>

\* lines 142-144: a syllable that matches a restriction is thrown away and
\* the loop starts again; any other syllable is returned
MS_Test ==
    /\ syl.pc = "test"
    /\ IF AnyRestrictionMatches(syl.syllable)
       THEN /\ syl' = EmptySyllable
            /\ ret' = ret
       ELSE /\ syl' = IdleSyl
            /\ ret' = Returned("syllable", syl.syllable)
    /\ UNCHANGED <<cons, cfg, calls, morphemes, words, names, gm, mw, gw, mn>>

(***************************************************************************)
(* Language.get_morpheme                                                   *)
(***************************************************************************)
\* a variant that stops one entry short of the end of every bucket
InAnyBucketButLast(x, d) ==
    \E k \in DOMAIN d : \E i \in 1..(Len(d[k]) - 1) : d[k][i] = x

\* any(x in m for m in d.values()): m is a bucket, a list, so x in m asks
\* whether x is an element of the list
InAnyBucket(x, d) ==
    \E k \in DOMAIN d : \E i \in 1..Len(d[k]) : d[k][i] = x

\* a variant that inserts at the front
ListInsertFirst(list, x) == <<x>> \o list

\* list.append
ListAppend(list, x) == Append(list, x)

\* a variant with the two values the other way round
MorphemeNewFactorSwapped(category) == IF category = None THEN 1 ELSE 10

\* new_factor of get_morpheme (lines 262-264)
MorphemeNewFactor(category) == IF category = None THEN 10 ELSE 1

\* a call of get_morpheme from outside
Call_get_morpheme ==
    /\ AllIdle
    /\ calls < MaxCalls
    /\ calls' = calls + 1
    /\ \E c \in CallCategories : gm' = [pc |-> "decide", category |-> c]
    /\ ret' = NoValue
    /\ UNCHANGED <<cons, cfg, morphemes, words, names, syl, mw, gw, mn>>

\* a variant that draws from range(a, b)
randint_exclusive(a, b) == a..(b - 1)

\* random.randint(a, b): the values it can return
randint(a, b) == a..b

\* lines 262-266: count and the draw random.randint(0, count + new_factor)
GM_Decide ==
    /\ gm.pc = "decide"
    /\ LET count == Len(Get(morphemes, gm.category))
       IN  \E d \in randint(0, count + MorphemeNewFactor(gm.category)) :
               gm' = [pc |-> "drawn", category |-> gm.category, draw |-> d]
    /\ UNCHANGED <<cons, cfg, calls, morphemes, words, names, syl, mw, gw, mn, ret>>

\* lines 266-268: reuse an entry of the bucket when the draw is below count,
\* or go on to make a new one
GM_Branch ==
    /\ gm.pc = "drawn"
    /\ LET count == Len(Get(morphemes, gm.category))
       IN  IF gm.draw < count
           THEN /\ \E i \in 1..count :
                      ret' = Returned("morpheme", morphemes[gm.category][i])
                /\ gm' = IdleGm
                /\ syl' = syl
           ELSE /\ gm' = [pc |-> "wait", category |-> gm.category]
                /\ syl' = EnterSyllable
                /\ ret' = NoValue
    /\ UNCHANGED <<cons, cfg, calls, morphemes, words, names, mw, gw, mn>>

\* lines 271-277: the syllable make_syllable returned is made again when it
\* is in a bucket, and is appended to the bucket of the category otherwise
GM_Check ==
    /\ gm.pc = "wait"
    /\ syl.pc = "idle"
    /\ LET morpheme == ret.val
       IN  IF InAnyBucket(morpheme, morphemes)
           THEN /\ syl' = EnterSyllable
                /\ ret' = NoValue
                /\ UNCHANGED <<gm, morphemes>>
           ELSE /\ morphemes' = Put(morphemes, gm.category,
                                    ListAppend(Get(morphemes, gm.category), morpheme))
                /\ gm' = IdleGm
                /\ ret' = Returned("morpheme", morpheme)
                /\ syl' = syl
    /\ UNCHANGED <<cons, cfg, calls, words, names, mw, gw, mn>>

(***************************************************************************)
(* Language.make_word                                                      *)
(***************************************************************************)
\* a call of get_morpheme(category) from make_word or make_name
EnterMorpheme(category) == [pc |-> "decide", category |-> category]

\* a call of make_word from outside
Call_make_word ==
    /\ AllIdle
    /\ calls < MaxCalls
    /\ calls' = calls + 1
    /\ \E c \in CallCategories : mw' = [IdleMw EXCEPT !.pc = "start", !.category = c]
    /\ ret' = NoValue
    /\ UNCHANGED <<cons, cfg, morphemes, words, names, syl, gm, gw, mn>>

\* a variant with range(syllable_count)
FillerCountAll(syllable_count) == syllable_count

\* line 283: how often range(syllable_count-1) lets the loop body run at most
FillerCount(syllable_count) == syllable_count - 1

\* lines 280-285: draw syllable_count and make the first call of
\* get_morpheme, for a filler when range(syllable_count-1) is not empty
MW_Start ==
    /\ mw.pc = "start"
    /\ \E n \in Config.min_syllables..Config.max_syllables :
           IF FillerCount(n) > 0
           THEN /\ mw' = [mw EXCEPT !.pc = "filler", !.syllable_count = n]
                /\ gm' = EnterMorpheme(None)
           ELSE /\ mw' = [mw EXCEPT !.pc = "last", !.syllable_count = n]
                /\ gm' = EnterMorpheme(mw.category)
    /\ ret' = NoValue
    /\ UNCHANGED <<cons, cfg, calls, morphemes, words, names, syl, gw, mn>>

\* lines 283-285: a filler came back; the next call is for another filler or
\* for the morpheme of the category
MW_Filler ==
    /\ mw.pc = "filler"
    /\ gm.pc = "idle"
    /\ LET syllables == ListAppend(mw.syllables, ret.val)
       IN  IF Len(syllables) < FillerCount(mw.syllable_count)
           THEN /\ mw' = [mw EXCEPT !.syllables = syllables]
                /\ gm' = EnterMorpheme(None)
           ELSE /\ mw' = [mw EXCEPT !.pc = "last", !.syllables = syllables]
                /\ gm' = EnterMorpheme(mw.category)
    /\ ret' = NoValue
    /\ UNCHANGED <<cons, cfg, calls, morphemes, words, names, syl, gw, mn>>

\* lines 285-287: the morpheme of the category came back; join and return
MW_Last ==
    /\ mw.pc = "last"
    /\ gm.pc = "idle"
    /\ ret' = Returned("word", Join(<<".">>, ListAppend(mw.syllables, ret.val)))
    /\ mw' = IdleMw
    /\ UNCHANGED <<cons, cfg, calls, morphemes, words, names, syl, gm, gw, mn>>

(***************************************************************************)
(* Language.get_word                                                       *)
(***************************************************************************)
\* new_factor of get_word (lines 290-292)
WordNewFactor(category) == IF category = None THEN 3 ELSE 2

\* a call of make_word(category) from get_word
EnterWord(category) == [IdleMw EXCEPT !.pc = "start", !.category = category]

\* a call of get_word(category) from outside or from make_name
EnterGetWord(category) == [pc |-> "decide", category |-> category]

Call_get_word ==
    /\ AllIdle
    /\ calls < MaxCalls
    /\ calls' = calls + 1
    /\ \E c \in CallCategories : gw' = EnterGetWord(c)
    /\ ret' = NoValue
    /\ UNCHANGED <<cons, cfg, morphemes, words, names, syl, gm, mw, mn>>

\* lines 290-299: reuse an entry of the bucket, or go on to make a new word
GW_Decide ==
    /\ gw.pc = "decide"
    /\ LET count == Len(Get(words, gw.category))
       IN  \E d \in 0..(count + WordNewFactor(gw.category)) :
               IF d < count
               THEN /\ \E i \in 1..count :
                          ret' = Returned("word", words[gw.category][i])
                    /\ gw' = IdleGw
                    /\ mw' = mw
               ELSE /\ PoolSize(words) < MaxWords
                    /\ gw' = [gw EXCEPT !.pc = "wait"]
                    /\ mw' = EnterWord(gw.category)
                    /\ ret' = NoValue
    /\ UNCHANGED <<cons, cfg, calls, morphemes, words, names, syl, gm, mn>>

\* lines 299-305: the word make_word returned is made again when it is in a
\* bucket, and is appended to the bucket of the category otherwise
GW_Check ==
    /\ gw.pc = "wait"
    /\ mw.pc = "idle"
    /\ LET word == ret.val
       IN  IF InAnyBucket(word, words)
           THEN /\ mw' = EnterWord(gw.category)
                /\ ret' = NoValue
                /\ UNCHANGED <<gw, words>>
           ELSE /\ words' = Put(words, gw.category,
                                ListAppend(Get(words, gw.category), word))
                /\ gw' = IdleGw
                /\ ret' = Returned("word", word)
                /\ mw' = mw
    /\ UNCHANGED <<cons, cfg, calls, morphemes, names, syl, gm, mn>>

(***************************************************************************)
(* Language.make_name                                                      *)
(***************************************************************************)
\* a call of make_name from outside
Call_make_name ==
    /\ AllIdle
    /\ calls < MaxCalls
    /\ calls' = calls + 1
    /\ \E c \in NameCategories : mn' = [IdleMn EXCEPT !.pc = "genitive", !.category = c]
    /\ ret' = NoValue
    /\ UNCHANGED <<cons, cfg, morphemes, words, names, syl, gm, mw, gw>>

\* line 308: genitive = self.genitive or self.get_morpheme('of')
MN_Genitive ==
    /\ mn.pc = "genitive"
    /\ IF Config.genitive # <<>>
       THEN /\ mn' = [mn EXCEPT !.pc = "definitive", !.genitive = Config.genitive]
            /\ gm' = gm
       ELSE /\ mn' = [mn EXCEPT !.pc = "genitive_back"]
            /\ gm' = EnterMorpheme("of")
    /\ UNCHANGED <<cons, cfg, calls, morphemes, words, names, syl, mw, gw, ret>>

MN_GenitiveBack ==
    /\ mn.pc = "genitive_back"
    /\ gm.pc = "idle"
    /\ mn' = [mn EXCEPT !.pc = "definitive", !.genitive = ret.val]
    /\ ret' = NoValue
    /\ UNCHANGED <<cons, cfg, calls, morphemes, words, names, syl, gm, mw, gw>>

\* line 309: definitive = self.definitive or self.get_morpheme('the')
MN_Definitive ==
    /\ mn.pc = "definitive"
    /\ IF Config.definitive # <<>>
       THEN /\ mn' = [mn EXCEPT !.pc = "loop", !.definitive = Config.definitive]
            /\ gm' = gm
       ELSE /\ mn' = [mn EXCEPT !.pc = "definitive_back"]
            /\ gm' = EnterMorpheme("the")
    /\ UNCHANGED <<cons, cfg, calls, morphemes, words, names, syl, mw, gw, ret>>

MN_DefinitiveBack ==
    /\ mn.pc = "definitive_back"
    /\ gm.pc = "idle"
    /\ mn' = [mn EXCEPT !.pc = "loop", !.definitive = ret.val]
    /\ ret' = NoValue
    /\ UNCHANGED <<cons, cfg, calls, morphemes, words, names, syl, gm, mw, gw>>

\* the frame of make_name at the top of its while loop (line 312)
LoopTop(frame) ==
    [frame EXCEPT !.pc = "loop", !.c2 = None, !.w1 = <<>>, !.w2 = <<>>,
                  !.words = <<>>, !.name = <<>>]

\* lines 313-318: one word, or the first of two words whose categories are
\* drawn before the first word is made
MN_Attempt ==
    /\ mn.pc = "loop"
    /\ \E one \in BOOLEAN :
           IF one
           THEN /\ mn' = [mn EXCEPT !.pc = "one"]
                /\ gw' = EnterGetWord(mn.category)
           ELSE \E tag1 \in BOOLEAN, tag2 \in BOOLEAN :
                /\ mn' = [mn EXCEPT !.pc = "first",
                                    !.c2 = IF tag2 THEN mn.category ELSE None]
                /\ gw' = EnterGetWord(IF tag1 THEN mn.category ELSE None)
    /\ UNCHANGED <<cons, cfg, calls, morphemes, words, names, syl, gm, mw, ret>>

\* line 314
MN_One ==
    /\ mn.pc = "one"
    /\ gw.pc = "idle"
    /\ mn' = [mn EXCEPT !.pc = "named", !.name = Capitalize(ret.val)]
    /\ ret' = NoValue
    /\ UNCHANGED <<cons, cfg, calls, morphemes, words, names, syl, gm, mw, gw>>

\* lines 318-319
MN_First ==
    /\ mn.pc = "first"
    /\ gw.pc = "idle"
    /\ mn' = [mn EXCEPT !.pc = "second", !.w1 = Capitalize(ret.val)]
    /\ gw' = EnterGetWord(mn.c2)
    /\ ret' = NoValue
    /\ UNCHANGED <<cons, cfg, calls, morphemes, words, names, syl, gm, mw>>

\* a variant without the rule for 'region'
JoinsDirectlyByCoin(category, coin) == coin

\* line 322: category == 'region' or random.random() < 0.5
JoinsDirectly(category, coin) == category = "region" \/ coin

\* lines 319-326
MN_Second ==
    /\ mn.pc = "second"
    /\ gw.pc = "idle"
    /\ LET w1 == mn.w1
           w2 == Capitalize(ret.val)
       IN  IF w1 = w2
           THEN mn' = LoopTop(mn)
           ELSE \E coin \in BOOLEAN :
                LET ws == IF JoinsDirectly(mn.category, coin)
                          THEN <<w1, w2>>
                          ELSE <<w1, mn.genitive, w2>>
                IN  mn' = [mn EXCEPT !.pc = "named", !.w2 = w2, !.words = ws,
                                     !.name = Join(Config.joiner, ws)]
    /\ ret' = NoValue
    /\ UNCHANGED <<cons, cfg, calls, morphemes, words, names, syl, gm, mw, gw>>

\* lines 327-329: the name with the definitive in front of it or not, stripped
Finished(name, definitive, with_definitive) ==
    Strip(IF with_definitive
          THEN Capitalize(Join(Config.joiner, <<definitive, name>>))
          ELSE name)

LengthRejectedAbove(name) ==
    Len(name) > Config.max_namelen

\* lines 331-332
LengthRejected(name) ==
    Config.min_namelen > Len(name) \/ Len(name) > Config.max_namelen

\* lines 327-339
MN_Finish ==
    /\ mn.pc = "named"
    /\ \E with_definitive \in BOOLEAN :
           LET name == Finished(mn.name, mn.definitive, with_definitive)
           IN  IF LengthRejected(name) \/ InAnyBucket(name, names)
               THEN /\ mn' = LoopTop(mn)
                    /\ UNCHANGED <<names, ret>>
               ELSE /\ names' = Put(names, mn.category,
                                    ListAppend(Get(names, mn.category), name))
                    /\ mn' = IdleMn
                    /\ ret' = Returned("name", name)
    /\ UNCHANGED <<cons, cfg, calls, morphemes, words, syl, gm, mw, gw>>

(***************************************************************************)
(* Construction, step by step: categories are defined in the inventory     *)
(* (Phonemes.__setitem__, which Phonemes.__init__ calls for every keyword  *)
(* argument), then a Phonology is constructed over it, then make_syllable  *)
(* is called on that Phonology.  The arguments come from small sets.  The  *)
(* tags in use are letters, which stand for themselves inside the bracket  *)
(* class the structure setter and make_syllable build from the tags.       *)
(***************************************************************************)
MaxStructure == 3
MaxPattern == 4

\* every string over the alphabet with at most n characters
StringsOver(alphabet, n) == UNION {[1..k -> alphabet] : k \in 0..n}

SetupKeys == {<<>>, <<"C">>, <<"V">>, <<"?">>, <<"C", "V">>}
SetupSources == {Seq_(<<>>), Dict_(<<>>), Seq_(<<"p">>), Dict_(<< <<"a", 2>> >>)}
Structures == StringsOver({"C", "V", "?"}, MaxStructure)
Patterns == StringsOver({BS, "C", "V"}, MaxPattern)
RestrictionLists == {<<>>} \cup {<<p>> : p \in Patterns}

\* the <<structure, restrictions>> a Phonology is constructed with: every
\* structure without restrictions, and a one-step structure with every list
PhonologyArguments ==
    {<<s, <<>>>> : s \in Structures}
        \cup {<<<<t>>, r>> : t \in {"C", "V"}, r \in RestrictionLists}

\* a variant that lets the tag '?' through
NotAllowedLength(key, value) ==
    Len(key) # 1 \/ Len(value.items) = 0

\* line 82: len(key) != 1 or len(value) == 0 or key == '?'
NotAllowed(key, value) ==
    Len(key) # 1 \/ Len(value.items) = 0 \/ key = <<"?">>

\* the keys of a dict after d[key] = value: a new key comes last
KeysAfterPut(keys, key) ==
    IF \E i \in 1..Len(keys) : keys[i] = key THEN keys ELSE Append(keys, key)

\* Phonemes.__setitem__(key, value), lines 81-85
Phonemes_setitem ==
    /\ cfg \notin DOMAIN AllConfigs
    /\ cons.stage = "phonemes"
    /\ \E key \in SetupKeys, value \in SetupSources :
           LET call == [op |-> "setitem", key |-> key, value |-> value]
           IN  IF NotAllowed(key, value)
               THEN cons' = [cons EXCEPT !.call = call, !.err = "KeyError"]
               ELSE cons' = [cons EXCEPT
                                !.tags = KeysAfterPut(cons.tags, key[1]),
                                !.phonemes = Put(cons.phonemes, key[1], value),
                                !.attributes = Put(cons.attributes, key[1], value),
                                !.call = call, !.err = "none"]
    /\ UNCHANGED <<cfg, calls, morphemes, words, names, syl, gm, mw, gw, mn, ret>>

RECURSIVE FullMatchFrom(_, _)
\* ([categories]\??)+ from position i on, up to the end of structure: one
\* category character, then a '?' or not, then the end or the group again
FullMatchFrom(structure, i) ==
    /\ i <= Len(structure)
    /\ structure[i] \in Categories
    /\ \/ i = Len(structure)
       \/ FullMatchFrom(structure, i + 1)
       \/ /\ i < Len(structure)
          /\ structure[i + 1] = "?"
          /\ (i + 1 = Len(structure) \/ FullMatchFrom(structure, i + 2))

\* a variant with re.match: the group once at the start, anything after it
valid_structure_match(structure) ==
    Len(structure) >= 1 /\ structure[1] \in Categories

\* lines 175-177: valid_structure.fullmatch(structure) is not None
valid_structure(structure) == FullMatchFrom(structure, 1)

\* Phonology.__init__(phonemes, structure, restrictions), lines 107-110, with
\* the structure setter of lines 169-178; the inventory of a finished
\* Phonemes object has a category
Phonology_init ==
    /\ cfg \notin DOMAIN AllConfigs
    /\ cons.stage = "phonemes"
    /\ cons.tags # <<>>
    /\ \E arguments \in PhonologyArguments :
           LET structure == arguments[1]
               restrictions == arguments[2]
               call == [op |-> "Phonology", structure |-> structure]
           IN  IF valid_structure(structure)
               THEN cons' = [cons EXCEPT !.stage = "phonology",
                                         !.structure = structure,
                                         !.restrictions = restrictions,
                                         !.call = call, !.err = "none"]
               ELSE cons' = [cons EXCEPT !.stage = "failed",
                                         !.call = call, !.err = "ValueError"]
    /\ UNCHANGED <<cfg, calls, morphemes, words, names, syl, gm, mw, gw, mn, ret>>

\* make_syllable called on the Phonology that was constructed
Setup_make_syllable ==
    /\ cfg \notin DOMAIN AllConfigs
    /\ cons.stage = "phonology"
    /\ Call_make_syllable

InitSetup ==
    /\ cfg = 0
    /\ cons = FreshCons
    /\ morphemes = EmptyDict
    /\ words = EmptyDict
    /\ names = EmptyDict
    /\ syl = IdleSyl
    /\ gm = IdleGm
    /\ mw = IdleMw
    /\ gw = IdleGw
    /\ mn = IdleMn
    /\ ret = NoValue
    /\ calls = 0

NextSetup ==
    \/ Phonemes_setitem
    \/ Phonology_init
    \/ Setup_make_syllable
    \/ MS_Start

SetupSpec == InitSetup /\ [][NextSetup]_vars

Next ==
    \/ Call_make_syllable
    \/ MS_Start
    \/ MS_Build
    \/ MS_Test
    \/ Call_get_morpheme
    \/ GM_Decide
    \/ GM_Branch
    \/ GM_Check
    \/ Call_make_word
    \/ MW_Start
    \/ MW_Filler
    \/ MW_Last
    \/ Call_get_word
    \/ GW_Decide
    \/ GW_Check
    \/ Call_make_name
    \/ MN_Genitive
    \/ MN_GenitiveBack
    \/ MN_Definitive
    \/ MN_DefinitiveBack
    \/ MN_Attempt
    \/ MN_One
    \/ MN_First
    \/ MN_Second
    \/ MN_Finish

Spec == Init /\ [][Next]_vars

(***************************************************************************)
(* The caches as sets of entries: an entry is a place <<category, index>>. *)
(***************************************************************************)
Entries(d) == UNION {{<<k, i>> : i \in 1..Len(d[k])} : k \in DOMAIN d}

\* no entry of d occurs inside another entry of d (an equal entry included)
NoSubstringPair(d) ==
    \A e1 \in Entries(d), e2 \in Entries(d) :
        e1 # e2 => ~IsSubstring(d[e1[1]][e1[2]], d[e2[1]][e2[2]])

\* no two entries of d are the same string
NoEqualPair(d) ==
    \A e1 \in Entries(d), e2 \in Entries(d) :
        e1 # e2 => d[e1[1]][e1[2]] # d[e2[1]][e2[2]]

\* two entries of d are different strings, one occurring inside the other
HasProperSubstringPair(d) ==
    \E e1 \in Entries(d), e2 \in Entries(d) :
        /\ d[e1[1]][e1[2]] # d[e2[1]][e2[2]]
        /\ IsSubstring(d[e1[1]][e1[2]], d[e2[1]][e2[2]])

Forbids(restriction, s) ==
    CASE restriction = <<"t", BS, "V">> ->
             \E i \in 1..(Len(s) - 1) : s[i] = "t" /\ s[i + 1] = "a"
      [] restriction = <<"(", ".", ")", BS, "1">> ->
             \E i \in 1..(Len(s) - 1) : s[i] = s[i + 1]
      [] OTHER -> FALSE

Forbidden(s) ==
    \E k \in 1..Len(Config.restrictions) : Forbids(Config.restrictions[k], s)

(***************************************************************************)
(* C4.  The step of make_syllable that tests a candidate returns it only   *)
(* when no restriction matches anywhere inside it, and returns it as it    *)
(* was built; a candidate some restriction matches is discarded whole: the *)
(* loop is back at its top with an empty syllable, nothing is returned and *)
(* nothing is stored.                                                      *)
(***************************************************************************)
C4_RestrictedDiscarded ==
    [][syl.pc = "test" =>
          IF Forbidden(syl.syllable)
          THEN /\ syl' = EmptySyllable
               /\ ret' = ret
               /\ morphemes' = morphemes
          ELSE /\ syl'.pc = "idle"
               /\ ret' = Returned("syllable", syl.syllable)]_vars

\* a syllable was returned under restrictions that forbid other candidates
C4_Witness ==
    /\ ret.kind = "syllable"
    /\ \E b \in BuildFrom(1, <<>>, <<>>) : Forbidden(b.syllable)
    /\ ~Forbidden(ret.val)

(***************************************************************************)
(* C5.  The syllable make_syllable returns is the concatenation, in the    *)
(* order of the template, of one phoneme for each step that was used:      *)
(* every step that is not optional is used once, an optional step once or  *)
(* not at all, and each phoneme is one of the category of its step.        *)
(***************************************************************************)
\* the phonemes of a category, as the configuration gives them
PhonemesOf(category) ==
    LET source == Config.phonemes[category]
    IN  {IF source.kind = "dict" THEN source.items[i][1] ELSE source.items[i]
            : i \in 1..Len(source.items)}

FollowsTemplate(syllable, picks) ==
    /\ Len(syllable) = Len(picks)
    /\ \A j \in 1..Len(picks) :
           /\ picks[j].step \in 1..Len(Steps)
           /\ syllable[j] = picks[j].phoneme
           /\ picks[j].phoneme \in PhonemesOf(Steps[picks[j].step].phoneme_type)
    /\ \A j \in 1..Len(picks), k \in 1..Len(picks) :
           j < k => picks[j].step < picks[k].step
    /\ \A i \in 1..Len(Steps) :
           ~Steps[i].is_optional => \E j \in 1..Len(picks) : picks[j].step = i

C5_ReturnedFollowsTemplate ==
    [][(syl.pc = "test" /\ syl'.pc = "idle") =>
          /\ ret' = Returned("syllable", syl.syllable)
          /\ FollowsTemplate(syl.syllable, syl.picks)]_vars

\* a syllable was returned that leaves an optional step out
C5_Witness ==
    /\ ret.kind = "syllable"
    /\ Len(ret.val) < Len(Steps)
    /\ \E i \in 1..Len(Steps) : Steps[i].is_optional

(***************************************************************************)
(* C9.  The caches are append-only: in every step, every bucket of the     *)
(* morpheme, word and name cache is still there afterwards and its old     *)
(* content is a prefix of its new content.                                 *)
(***************************************************************************)
IsPrefix(s, t) == Len(s) <= Len(t) /\ SubSeq(t, 1, Len(s)) = s

Grows(d, e) == \A k \in DOMAIN d : k \in DOMAIN e /\ IsPrefix(d[k], e[k])

C9_AppendOnly ==
    [][/\ Grows(morphemes, morphemes')
       /\ Grows(words, words')
       /\ Grows(names, names')]_vars

\* each cache has a bucket that was appended to when it was not empty
C9_Witness ==
    /\ \E k \in DOMAIN morphemes : Len(morphemes[k]) >= 2
    /\ \E k \in DOMAIN words : Len(words[k]) >= 2
    /\ \E k \in DOMAIN names : Len(names[k]) >= 2

(***************************************************************************)
(* C10.  In make_name('region') the two words of the two-word branch are   *)
(* joined directly: the list that is joined is [w1, w2] and the name is    *)
(* w1, the joiner, w2, whatever the coin says.                             *)
(***************************************************************************)
TwoWordsJoined == mn.pc = "named" /\ mn.words # <<>>

C10_RegionJoinsDirectly ==
    (TwoWordsJoined /\ mn.category = "region") =>
        /\ mn.words = <<mn.w1, mn.w2>>
        /\ mn.name = mn.w1 \o Config.joiner \o mn.w2

\* make_name('region') has joined two words while a genitive was at hand
C10_Witness ==
    /\ TwoWordsJoined
    /\ mn.category = "region"
    /\ mn.genitive # <<>>

\* for another category the genitive is never put between the two words
\* (refuted: both joins are reachable for 'person')
C10_PersonNeverGenitive ==
    (TwoWordsJoined /\ mn.category = "person") => mn.words = <<mn.w1, mn.w2>>

\* for another category the two words are never joined directly (refuted)
C10_PersonNeverDirect ==
    (TwoWordsJoined /\ mn.category = "person") => mn.words # <<mn.w1, mn.w2>>

(***************************************************************************)
(* The calls of make_syllable, get_morpheme and make_word alone, with the  *)
(* fairness the execution gives: a running function takes its next step,   *)
(* and a loop that builds candidates again and again builds each candidate *)
(* the draws can give again and again (each has a positive probability).   *)
(* Calls from outside are under no fairness.                               *)
(***************************************************************************)
NextWords ==
    \/ Call_make_syllable
    \/ MS_Start
    \/ MS_Build
    \/ MS_Test
    \/ Call_get_morpheme
    \/ GM_Decide
    \/ GM_Branch
    \/ GM_Check
    \/ Call_make_word
    \/ MW_Start
    \/ MW_Filler
    \/ MW_Last

\* every candidate some configuration can build
Candidates == {<<"p">>, <<"t">>, <<"p", "a">>, <<"t", "a">>, <<"p", "p">>}

Fairness ==
    /\ WF_vars(MS_Start)
    /\ WF_vars(MS_Test)
    /\ WF_vars(GM_Decide)
    /\ WF_vars(GM_Branch)
    /\ WF_vars(GM_Check)
    /\ WF_vars(MW_Start)
    /\ WF_vars(MW_Filler)
    /\ WF_vars(MW_Last)
    /\ \A c \in Candidates : SF_vars(MS_Build /\ syl'.syllable = c)

FairSpec == Init /\ [][NextWords]_vars /\ Fairness

\* the same calls on the Language of ConfigZero
InitZero ==
    /\ cfg = Len(AllConfigs)
    /\ cons = FreshCons
    /\ morphemes = EmptyDict
    /\ words = EmptyDict
    /\ names = EmptyDict
    /\ syl = IdleSyl
    /\ gm = IdleGm
    /\ mw = IdleMw
    /\ gw = IdleGw
    /\ mn = IdleMn
    /\ ret = NoValue
    /\ calls = 0

ZeroSpec == InitZero /\ [][NextWords]_vars

\* FairSpec builds no candidate outside Candidates
CandidatesCoverBuild ==
    \A b \in BuildFrom(1, <<>>, <<>>) : b.syllable \in Candidates

(***************************************************************************)
(* C6.  With C={'p'}, structure 'CC' and the restriction r'(.)\1', every   *)
(* call of make_syllable ends in the error GenerationExhausted.            *)
(***************************************************************************)
C6_DoubledEndsExhausted ==
    (Config = ConfigDoubled /\ syl.pc = "start")
        ~> (syl.pc = "idle" /\ ret.kind = "GenerationExhausted")

(***************************************************************************)
(* C7.  Every call of get_morpheme ends (it returns, or an error ends it), *)
(* also when every syllable the phonology can produce is stored already.   *)
(* The calls looked at are those under a phonology that has a syllable no  *)
(* restriction matches, so that make_syllable itself always returns.       *)
(***************************************************************************)
SomeSyllableAllowed ==
    \E b \in BuildFrom(1, <<>>, <<>>) : ~AnyRestrictionMatches(b.syllable)

C7_MorphemeCallsEnd ==
    (SomeSyllableAllowed /\ gm.pc = "decide") ~> (gm.pc = "idle")

(***************************************************************************)
(* C11.  Every stored name and every name make_name returns is stripped    *)
(* and has a length from min_namelen to max_namelen, both ends included.   *)
(* When neither finished form of a candidate has such a length, the step   *)
(* stores nothing and the loop starts again from the top.                  *)
(***************************************************************************)
WithinNameBounds(name) ==
    /\ Strip(name) = name
    /\ Len(name) >= Config.min_namelen
    /\ Len(name) <= Config.max_namelen

C11_StoredWithinBounds ==
    /\ \A e \in Entries(names) : WithinNameBounds(names[e[1]][e[2]])
    /\ ret.kind = "name" => WithinNameBounds(ret.val)

C11_OutOfBoundsRetries ==
    (/\ mn.pc = "named"
     /\ \A with_definitive \in BOOLEAN :
            ~WithinNameBounds(Finished(mn.name, mn.definitive, with_definitive)))
        => (mn' = LoopTop(mn) /\ names' = names /\ ret' = ret)

C11_NameLengthBounds ==
    [](C11_StoredWithinBounds) /\ [][C11_OutOfBoundsRetries]_vars

\* a name is stored already and a candidate longer than max_namelen is at hand
C11_Witness ==
    /\ PoolSize(names) > 0
    /\ mn.pc = "named"
    /\ Len(Strip(mn.name)) > Config.max_namelen

(***************************************************************************)
(* C12.  Defining a category fails with an error (KeyError) when the tag   *)
(* is not exactly one character, when the tag is '?', or when the source   *)
(* is empty, and the inventory is then what it was before the call.  Any   *)
(* other definition stores the source as given under the tag and leaves    *)
(* the other categories alone.                                             *)
(***************************************************************************)
SameSource(a, b) == a.kind = b.kind /\ a.items = b.items

C12_DefineStep ==
    (cons'.call.op = "setitem") =>
        LET key == cons'.call.key
            value == cons'.call.value
        IN  IF Len(key) # 1 \/ key = <<"?">> \/ value.items = <<>>
            THEN /\ cons'.err = "KeyError"
                 /\ cons'.tags = cons.tags
                 /\ DOMAIN cons'.phonemes = DOMAIN cons.phonemes
                 /\ \A t \in DOMAIN cons.phonemes :
                        SameSource(cons'.phonemes[t], cons.phonemes[t])
            ELSE /\ cons'.err = "none"
                 /\ key[1] \in DOMAIN cons'.phonemes
                 /\ SameSource(cons'.phonemes[key[1]], value)
                 /\ \A t \in DOMAIN cons.phonemes \ {key[1]} :
                        /\ t \in DOMAIN cons'.phonemes
                        /\ SameSource(cons'.phonemes[t], cons.phonemes[t])

TokenSet == {<<t>> : t \in Categories} \cup {<<t, "?">> : t \in Categories}

Decompositions(s) ==
    {tokens \in UNION {[1..n -> TokenSet] : n \in 1..Len(s)} : Concat(tokens) = s}

StepOfToken(token) == [phoneme_type |-> token[1], is_optional |-> Len(token) = 2]

C13_StructureTokens ==
    cons.call.op = "Phonology" =>
        LET s == cons.call.structure
        IN  IF Decompositions(s) = {}
            THEN cons.stage = "failed" /\ cons.err = "ValueError"
            ELSE /\ cons.stage = "phonology"
                 /\ cons.err = "none"
                 /\ cons.structure = s
                 /\ \A tokens \in Decompositions(s) :
                        Steps = [i \in 1..Len(tokens) |-> StepOfToken(tokens[i])]

\* make_syllable has parsed an accepted structure of two tokens, one optional
C13_Witness ==
    /\ cons.stage = "phonology"
    /\ cons.structure = <<"C", "?", "V">>
    /\ syl.pc = "build"

\* a structure with a doubled '?' was refused
C13_WitnessRefused ==
    /\ cons.stage = "failed"
    /\ cons.call.structure = <<"C", "?", "?">>

RECURSIVE RunBefore(_, _)
\* how many backslashes stand in a row right before position j
RunBefore(regex, j) ==
    IF j > 1 /\ regex[j - 1] = BS THEN 1 + RunBefore(regex, j - 1) ELSE 0

\* the letters that are tags in some inventory
TagLetters == {"C", "V"}

\* the restriction has a placeholder (an odd run of backslashes and a tag
\* letter) whose tag the inventory does not have
ReferencesAbsentTag(regex) ==
    \E j \in 1..Len(regex) :
        /\ regex[j] \in TagLetters \ Categories
        /\ RunBefore(regex, j) % 2 = 1

(***************************************************************************)
(* C14.  No Phonology is constructed with a restriction whose placeholder  *)
(* references a tag the inventory does not have: the construction fails.   *)
(***************************************************************************)
C14_AbsentTagRejected ==
    cons.stage = "phonology" =>
        \A k \in 1..Len(cons.restrictions) : ~ReferencesAbsentTag(cons.restrictions[k])

\* C14, second half: the error of such a restriction never comes out of a
\* call of make_syllable
C14_NeverDeferred ==
    ~(/\ ret.kind = "re.error"
      /\ \E k \in 1..Len(cons.restrictions) : ReferencesAbsentTag(cons.restrictions[k]))

\* the bracket class of a category: '[' + its phonemes + ']'
ClassOf(tag) == <<"[">> \o Elements(Config.phonemes[tag]) \o <<"]">>

\* the text of the restriction once make_syllable has processed it
Processed(k) == process_restriction(Config.restrictions[k])

\* make_syllable has processed the restrictions of the constructed Phonology
RestrictionsProcessed ==
    /\ cons.stage = "phonology"
    /\ syl.pc = "build" \/ ret.kind = "re.error"

\* Position i of the pattern as the claim rewrites it: a tag after an odd
\* run of backslashes becomes the class and takes the last backslash of the
\* run with it; every other character stays.
ClaimedPiece(regex, i) ==
    IF regex[i] \in Categories /\ RunBefore(regex, i) % 2 = 1
    THEN ClassOf(regex[i])
    ELSE IF /\ regex[i] = BS
            /\ i < Len(regex)
            /\ regex[i + 1] \in Categories
            /\ RunBefore(regex, i + 1) % 2 = 1
         THEN <<>>
         ELSE <<regex[i]>>

ClaimedText(regex) == Concat([i \in 1..Len(regex) |-> ClaimedPiece(regex, i)])

(***************************************************************************)
(* C15.  A processed restriction is its text with every tag that stands    *)
(* after an odd run of backslashes replaced, together with the last        *)
(* backslash of the run, by the bracket class of the category; a tag after *)
(* an even run, and the backslashes in front of the last one, stay.        *)
(***************************************************************************)
C15_OddRunsOnly ==
    RestrictionsProcessed =>
        \A k \in 1..Len(Config.restrictions) :
            Processed(k) = ClaimedText(Config.restrictions[k])

\* Position i of the pattern as the code rewrites it: a tag after any run of
\* backslashes becomes the class; the backslashes of that run go, except the
\* first one of a run of even length; every other character stays.
RewrittenPiece(regex, i) ==
    IF regex[i] \in Categories /\ RunBefore(regex, i) >= 1
    THEN ClassOf(regex[i])
    ELSE IF /\ regex[i] = BS
            /\ i + BackslashRun(regex, i) <= Len(regex)
            /\ regex[i + BackslashRun(regex, i)] \in Categories
         THEN IF RunBefore(regex, i) = 0 /\ BackslashRun(regex, i) % 2 = 0
              THEN <<BS>>
              ELSE <<>>
         ELSE <<regex[i]>>

RewrittenText(regex) == Concat([i \in 1..Len(regex) |-> RewrittenPiece(regex, i)])

(***************************************************************************)
(* C15, amended.  A processed restriction is its text with every tag that  *)
(* stands after at least one backslash replaced by the bracket class of    *)
(* the category, whatever the length of the run; the backslashes of the    *)
(* run are removed with it, except that one stays when the run is even.    *)
(***************************************************************************)
C15_AnyRunActivates ==
    RestrictionsProcessed =>
        \A k \in 1..Len(Config.restrictions) :
            Processed(k) = RewrittenText(Config.restrictions[k])

\* make_syllable has processed the doubled escape r'\\C' for a defined C
C15_Witness ==
    /\ RestrictionsProcessed
    /\ "C" \in Categories
    /\ cons.restrictions = << <<BS, BS, "C">> >>

\* ... and a run of three backslashes in front of the tag
C15_WitnessThree ==
    /\ RestrictionsProcessed
    /\ "C" \in Categories
    /\ cons.restrictions = << <<BS, BS, BS, "C">> >>

\* the elements of a list
ElementsOf(list) == {list[i] : i \in 1..Len(list)}

\* the size of the bucket get_morpheme was called for
MorphemeCount == Len(Get(morphemes, gm.category))

\* the draw is an integer from 0 to count + bias, bias 10 for the anonymous
\* bucket and 1 for a named one
C16_DrawInRange ==
    gm.pc = "drawn" =>
        /\ gm.draw >= 0
        /\ gm.draw <= MorphemeCount + (IF gm.category = None THEN 10 ELSE 1)

\* after the draw: below count an entry of the bucket is returned and the
\* cache stays, otherwise a new syllable is asked for
C16_BranchStep ==
    (gm.pc = "drawn" /\ gm' # gm) =>
        IF gm.draw < MorphemeCount
        THEN /\ gm'.pc = "idle"
             /\ ret'.kind = "morpheme"
             /\ ret'.val \in ElementsOf(Get(morphemes, gm.category))
             /\ morphemes' = morphemes
        ELSE /\ gm'.pc = "wait"
             /\ syl'.pc = "start"
             /\ morphemes' = morphemes

\* the new syllable is returned and is the one entry appended to the bucket
C16_NewStep ==
    (gm.pc = "wait" /\ gm'.pc = "idle" /\ ret'.kind = "morpheme") =>
        /\ ret'.val = ret.val
        /\ ret.val \notin ElementsOf(Get(morphemes, gm.category))
        /\ morphemes' = [k \in DOMAIN morphemes \cup {gm.category} |->
                            IF k = gm.category
                            THEN Get(morphemes, gm.category) \o <<ret.val>>
                            ELSE morphemes[k]]

(***************************************************************************)
(* C16.  get_morpheme(category) draws d from 0 to count + bias, count the  *)
(* size of the bucket of the category, bias 10 for the anonymous bucket    *)
(* and 1 for a named one.  With d < count it returns an entry of the       *)
(* bucket and stores nothing; otherwise the call goes on to make a         *)
(* syllable, and when it returns, it returns a syllable that was not in    *)
(* the bucket and is then its one new entry.  On an empty bucket no draw   *)
(* is below count, so the call never reuses.                               *)
(***************************************************************************)
C16_DrawDecides ==
    /\ [](C16_DrawInRange)
    /\ [][C16_BranchStep]_vars
    /\ [][C16_NewStep]_vars

\* a named bucket with one entry and the largest draw, count + 1
C16_Witness ==
    /\ gm.pc = "drawn"
    /\ gm.category = "region"
    /\ MorphemeCount = 1
    /\ gm.draw = 2

\* a reuse: the draw is below count
C16_WitnessReuse ==
    /\ gm.pc = "drawn"
    /\ gm.draw < MorphemeCount

\* the values the draw of get_morpheme can take in this state
PossibleDraws ==
    {d \in (0 - 2)..(MorphemeCount + 12) : ENABLED (GM_Decide /\ gm'.draw = d)}

\* the values of the draw after which an entry of the bucket is returned
ReuseDraws == {d \in PossibleDraws : d < MorphemeCount}

(***************************************************************************)
(* C17.  When get_morpheme draws for the anonymous bucket, the draw has    *)
(* count + 10 possible values and count of them lead to reuse: the share   *)
(* of reuse is count / (count + 10).                                       *)
(***************************************************************************)
C17_ReuseShareOfTen ==
    (gm.pc = "decide" /\ gm.category = None) =>
        /\ Cardinality(PossibleDraws) = MorphemeCount + 10
        /\ Cardinality(ReuseDraws) = MorphemeCount

(***************************************************************************)
(* C17, amended.  When get_morpheme draws for the anonymous bucket, the    *)
(* draw has count + 11 possible values, 0 to count + 10, and count of them *)
(* lead to reuse: the share of reuse is count / (count + 11).              *)
(***************************************************************************)
C17_ReuseShareOfEleven ==
    (gm.pc = "decide" /\ gm.category = None) =>
        /\ PossibleDraws = 0..(MorphemeCount + 10)
        /\ Cardinality(PossibleDraws) = MorphemeCount + 11
        /\ Cardinality(ReuseDraws) = MorphemeCount

\* get_morpheme is about to draw for an anonymous bucket that has entries
C17_Witness ==
    /\ gm.pc = "decide"
    /\ gm.category = None
    /\ MorphemeCount >= 1

\* the morphemes make_word has collected when the last one has come back
WordParts == mw.syllables \o <<ret.val>>

\* make_word returns: the word is the '.'-join of its morphemes, the drawn
\* count is within the configured range, the last morpheme is in the bucket
\* of the category and the others are in the anonymous bucket
C18_Returns(morpheme_count) ==
    (mw.pc = "last" /\ mw'.pc = "idle") =>
        /\ ret'.kind = "word"
        /\ ret'.val = Join(<<".">>, WordParts)
        /\ Len(WordParts) = morpheme_count
        /\ mw.syllable_count >= Config.min_syllables
        /\ mw.syllable_count <= Config.max_syllables
        /\ WordParts[Len(WordParts)] \in ElementsOf(Get(morphemes, mw.category))
        /\ \A i \in 1..(Len(WordParts) - 1) :
               WordParts[i] \in ElementsOf(Get(morphemes, None))

(***************************************************************************)
(* C18.  make_word(category) returns the '.'-join of exactly n morphemes,  *)
(* n the drawn syllable count, min_syllables <= n <= max_syllables, also   *)
(* with min_syllables = 0; the last is an entry of the bucket of the       *)
(* category and the others are entries of the anonymous bucket.            *)
(***************************************************************************)
C18_ExactlyDrawnCount == [][C18_Returns(mw.syllable_count)]_vars

(***************************************************************************)
(* C18, amended.  make_word(category) returns the '.'-join of n morphemes  *)
(* for a drawn count n >= 1 and of one morpheme for n = 0; the last is an  *)
(* entry of the bucket of the category and the others are entries of the   *)
(* anonymous bucket.                                                       *)
(***************************************************************************)
C18_AtLeastOneMorpheme ==
    [][C18_Returns(IF mw.syllable_count >= 1 THEN mw.syllable_count ELSE 1)]_vars

\* the drawn count is 0 and the morpheme of the category has come back
C18_Witness ==
    /\ mw.pc = "last"
    /\ mw.syllable_count = 0
    /\ gm.pc = "idle"
    /\ ret.kind = "morpheme"

\* the drawn count is 2: a filler and the morpheme of the category
C18_WitnessTwo ==
    /\ mw.pc = "last"
    /\ mw.syllable_count = 2
    /\ gm.pc = "idle"
    /\ ret.kind = "morpheme"

(***************************************************************************)
(* C19.  No string is stored twice in the morpheme cache, within a bucket  *)
(* or in two buckets, and the same holds of the word cache and of the      *)
(* name cache.                                                             *)
(***************************************************************************)
C19_NoStringStoredTwice ==
    \A cache \in {morphemes, words, names} :
        \A e1 \in Entries(cache), e2 \in Entries(cache) :
            cache[e1[1]][e1[2]] = cache[e2[1]][e2[2]] => e1 = e2

\* the three caches have entries, the morpheme cache in two buckets
C19_Witness ==
    /\ PoolSize(names) >= 1
    /\ PoolSize(words) >= 2
    /\ Cardinality(DOMAIN morphemes) >= 2

\* a name is stored and a morpheme bucket has two entries
C19_WitnessBucket ==
    /\ PoolSize(names) >= 1
    /\ \E k \in DOMAIN morphemes : Len(morphemes[k]) >= 2

\* new is old with one entry appended to the bucket of key, nothing else
AppendedOne(old, new, key) ==
    /\ DOMAIN new = DOMAIN old \cup {key}
    /\ \A k \in DOMAIN old \ {key} : new[k] = old[k]
    /\ Len(new[key]) = Len(Get(old, key)) + 1
    /\ SubSeq(new[key], 1, Len(new[key]) - 1) = Get(old, key)

CachesUnchanged == morphemes' = morphemes /\ words' = words /\ names' = names

\* a call of get_morpheme or get_word that returns an entry it found in the
\* bucket has changed no cache: no step of the reuse branch changes one
C20_ReuseChangesNothing ==
    /\ (gm.pc \in {"decide", "drawn"} /\ gm' # gm) => CachesUnchanged
    /\ (gw.pc = "decide" /\ gw' # gw) => CachesUnchanged

\* while get_morpheme runs, the word and name caches stay, and the morpheme
\* cache changes only in the step that returns the new morpheme: one entry
\* appended to the bucket asked for
C20_MorphemeFrame ==
    gm.pc # "idle" =>
        /\ words' = words
        /\ names' = names
        /\ morphemes' # morphemes =>
               /\ gm.pc = "wait" /\ gm'.pc = "idle"
               /\ AppendedOne(morphemes, morphemes', gm.category)

\* while get_word or make_word runs, the name cache stays
C20_WordFrame ==
    (gw.pc # "idle" \/ mw.pc # "idle") => names' = names

\* the name cache changes only in the step that completes make_name, by one
\* entry appended to the bucket of the category; that step changes no other
\* cache, and every completed call has made it
C20_NameFrame ==
    /\ names' # names =>
           /\ mn.pc = "named" /\ mn'.pc = "idle"
           /\ AppendedOne(names, names', mn.category)
           /\ morphemes' = morphemes /\ words' = words
    /\ (mn.pc # "idle" /\ mn'.pc = "idle" /\ ret'.kind = "name") =>
           /\ AppendedOne(names, names', mn.category)
           /\ names'[mn.category][Len(names'[mn.category])] = ret'.val

(***************************************************************************)
(* C20.  Frame conditions.  The reuse branch of get_morpheme and get_word  *)
(* changes no cache.  A get_morpheme call that makes an entry appends one  *)
(* entry to the bucket asked for and changes nothing else.  get_word and   *)
(* make_word never change the name cache.  A completed make_name(category) *)
(* appends one entry to names[category] and changes no other name bucket;  *)
(* its rejected attempts leave the name cache alone.                       *)
(***************************************************************************)
C20_FrameConditions ==
    /\ [][C20_ReuseChangesNothing]_vars
    /\ [][C20_MorphemeFrame]_vars
    /\ [][C20_WordFrame]_vars
    /\ [][C20_NameFrame]_vars

\* make_name has a second name at hand, in another bucket than the first,
\* after the morpheme and word caches have grown
C20_Witness ==
    /\ mn.pc = "named"
    /\ PoolSize(names) >= 1
    /\ mn.category \notin DOMAIN names
    /\ PoolSize(words) >= 2
    /\ PoolSize(morphemes) >= 2

\* an attempt of make_name that is going to be rejected has grown the word
\* and morpheme caches
C20_WitnessRejected ==
    /\ mn.pc = "named"
    /\ \A with_definitive \in BOOLEAN :
           LengthRejected(Finished(mn.name, mn.definitive, with_definitive))
    /\ PoolSize(words) >= 1
    /\ PoolSize(morphemes) >= 1

====
